---- MODULE Spec2Model ----
(***************************************************************************)
(* The DreamScreen component of Home Assistant (src/__init__.py): setup,   *)
(* the five registered services and their shared handler, and the entity  *)
(* adapter that projects a pydreamscreen device handle into name, state    *)
(* and state attributes.                                                   *)
(*                                                                         *)
(* Text is modelled as a sequence of one-character strings, so that        *)
(* matching, slugifying, hex formatting and upper-casing are computed      *)
(* character by character.  A device handle is a function from attribute  *)
(* names to values: setattr may add an attribute the handle's class never  *)
(* declared.                                                               *)
(***************************************************************************)
EXTENDS Integers, Sequences, FiniteSets, TLC

VARIABLES
    device,      \* device handle index -> its attributes (pydreamscreen object)
    kind,        \* device handle index -> its pydreamscreen class
    entities,    \* async_setup: the adapters built so far, in order
    entity_ids,  \* async_setup: the identifiers generated so far
    setup_pc,    \* async_setup: "loop" while building, "done" once registered
    call,        \* the service call being handled (or the last one handled)
    written,     \* handles the current call has written to (history)
    clobbered    \* handles whose written attribute a later refresh replaced (history)

vars == <<device, kind, entities, entity_ids, setup_pc, call, written, clobbered>>

-----------------------------------------------------------------------------
(* Bounds *)

\* the most devices get_devices() returns in the setup specification
MaxDevices == 3

-----------------------------------------------------------------------------
(* Characters *)

LowerLetters ==
    <<"a","b","c","d","e","f","g","h","i","j","k","l","m",
      "n","o","p","q","r","s","t","u","v","w","x","y","z">>

UpperLetters ==
    <<"A","B","C","D","E","F","G","H","I","J","K","L","M",
      "N","O","P","Q","R","S","T","U","V","W","X","Y","Z">>

Digits == <<"0","1","2","3","4","5","6","7","8","9">>

Elems(s) == {s[i] : i \in DOMAIN s}

IndexOf(s, c) == CHOOSE i \in DOMAIN s : s[i] = c

\* str.upper() and str.lower(), one character
Upper(c) == IF c \in Elems(LowerLetters) THEN UpperLetters[IndexOf(LowerLetters, c)] ELSE c

Lower(c) == IF c \in Elems(UpperLetters) THEN LowerLetters[IndexOf(UpperLetters, c)] ELSE c

UpperStr(s) == [i \in DOMAIN s |-> Upper(s[i])]

LowerStr(s) == [i \in DOMAIN s |-> Lower(s[i])]

\* the character class [0-9a-fA-F]
IsHexDigit(c) ==
    \/ c \in Elems(Digits)
    \/ c \in Elems(SubSeq(LowerLetters, 1, 6))
    \/ c \in Elems(SubSeq(UpperLetters, 1, 6))

\* the sixteen digits bytes.hex() writes
HexDigits == Digits \o SubSeq(LowerLetters, 1, 6)

HexValue(c) == IndexOf(HexDigits, Lower(c)) - 1

\* bytes.hex(): two lower-case digits per byte
RECURSIVE BytesHex(_)
BytesHex(b) ==
    IF b = <<>> THEN <<>>
    ELSE <<HexDigits[(Head(b) \div 16) + 1], HexDigits[(Head(b) % 16) + 1]>>
         \o BytesHex(Tail(b))

\* str(n) for n >= 0
RECURSIVE IntStr(_)
IntStr(n) == IF n < 10 THEN <<Digits[n + 1]>> ELSE IntStr(n \div 10) \o <<Digits[(n % 10) + 1]>>

\* int(s) for a text of decimal digits with an optional sign; IsIntStr says when it parses
IsIntStr(s) ==
    LET body == IF s # <<>> /\ s[1] = "-" THEN Tail(s) ELSE s
    IN  body # <<>> /\ \A i \in DOMAIN body : body[i] \in Elems(Digits)

RECURSIVE DigitsValue(_)
DigitsValue(s) ==
    IF s = <<>> THEN 0
    ELSE 10 * DigitsValue(SubSeq(s, 1, Len(s) - 1)) + (IndexOf(Digits, s[Len(s)]) - 1)

StrInt(s) == IF s[1] = "-" THEN 0 - DigitsValue(Tail(s)) ELSE DigitsValue(s)

-----------------------------------------------------------------------------
(* Service parameters as they arrive, before validation:                   *)
(*   [t |-> "int", v |-> n]         a Python int                           *)
(*   [t |-> "float", tenths |-> k]  a Python float, k/10                   *)
(*   [t |-> "str", s |-> text]      a Python str                           *)
(*   [t |-> "none"]                 None                                   *)

Invalid == [ok |-> FALSE]

Valid(v) == [ok |-> TRUE, v |-> v]

\* int(x) on a float: truncation toward zero
Trunc(tenths) == IF tenths >= 0 THEN tenths \div 10 ELSE 0 - ((0 - tenths) \div 10)

\* vol.Coerce(int): int(x), or invalid when int(x) raises
Coerce(raw) ==
    CASE raw.t = "int"   -> Valid(raw.v)
      [] raw.t = "float" -> Valid(Trunc(raw.tenths))
      [] raw.t = "str"   -> IF IsIntStr(raw.s) THEN Valid(StrInt(raw.s)) ELSE Invalid
      [] OTHER           -> Invalid

\* variant: the range checked at its upper end only
VolRangeNoMin(r, lo, hi) == IF r.ok /\ r.v <= hi THEN r ELSE Invalid

\* vol.Range(min=lo, max=hi), after a first validator
VolRange(r, lo, hi) == IF r.ok /\ lo <= r.v /\ r.v <= hi THEN r ELSE Invalid

\* re.match(r'^#(?:[0-9a-fA-F]{3}){1,2}$', s) on a single-line text
MatchColor(s) ==
    /\ Len(s) \in {1 + 3, 1 + 3 + 3}
    /\ s[1] = "#"
    /\ \A i \in 2..Len(s) : IsHexDigit(s[i])

\* vol.Match(...): the text itself when it matches; a non-str never matches
VolMatch(raw) == IF raw.t = "str" /\ MatchColor(raw.s) THEN Valid(raw.s) ELSE Invalid

SERVICE_MODE == "set_mode"

SERVICE_MODE_SCHEMA(raw) == VolRange(Coerce(raw), 0, 3)

SERVICE_HDMI_SOURCE == "set_hdmi_source"

SERVICE_HDMI_SOURCE_SCHEMA(raw) == VolRange(Coerce(raw), 0, 2)

SERVICE_BRIGHTNESS == "set_brightness"

SERVICE_BRIGHTNESS_SCHEMA(raw) == VolRange(Coerce(raw), 0, 100)

SERVICE_AMBIENT_SCENE == "set_ambient_scene"

SERVICE_AMBIENT_SCENE_SCHEMA(raw) == VolRange(Coerce(raw), 0, 8)

SERVICE_AMBIENT_COLOR == "set_ambient_color"

SERVICE_AMBIENT_COLOR_SCHEMA(raw) == VolMatch(raw)

Services ==
    {SERVICE_MODE, SERVICE_HDMI_SOURCE, SERVICE_BRIGHTNESS,
     SERVICE_AMBIENT_SCENE, SERVICE_AMBIENT_COLOR}

\* SERVICE_TO_ATTRIBUTE[service]['attribute']
SERVICE_TO_ATTRIBUTE(service) ==
    CASE service = SERVICE_MODE          -> "mode"
      [] service = SERVICE_HDMI_SOURCE   -> "hdmi_input"
      [] service = SERVICE_BRIGHTNESS    -> "brightness"
      [] service = SERVICE_AMBIENT_SCENE -> "ambient_scene"
      [] service = SERVICE_AMBIENT_COLOR -> "ambient_color"

\* SERVICE_TO_ATTRIBUTE[service]['schema'] applied to the service's parameter
Schema(service, raw) ==
    CASE service = SERVICE_MODE          -> SERVICE_MODE_SCHEMA(raw)
      [] service = SERVICE_HDMI_SOURCE   -> SERVICE_HDMI_SOURCE_SCHEMA(raw)
      [] service = SERVICE_BRIGHTNESS    -> SERVICE_BRIGHTNESS_SCHEMA(raw)
      [] service = SERVICE_AMBIENT_SCENE -> SERVICE_AMBIENT_SCENE_SCHEMA(raw)
      [] service = SERVICE_AMBIENT_COLOR -> SERVICE_AMBIENT_COLOR_SCHEMA(raw)

-----------------------------------------------------------------------------
(* Device handles (pydreamscreen objects)                                  *)

HdmiKinds == {"DreamScreenHD", "DreamScreen4K"}

Kinds == HdmiKinds \cup {"SideKick"}

\* Python's None
None == "None"

\* a handle as get_devices() returns it
NewDevice(name, k) ==
    LET base == [name |-> name, group_name |-> "unassigned", group_number |-> 0,
                 mode |-> 0, brightness |-> 50, ambient_color |-> <<0, 0, 0>>,
                 ambient_scene |-> 0]
        hdmi == [hdmi_input |-> 0, hdmi_input_1_name |-> "HDMI 1",
                 hdmi_input_2_name |-> "HDMI 2", hdmi_input_3_name |-> "HDMI 3",
                 hdmi_active_channels |-> 0]
    IN  IF k \in HdmiKinds THEN hdmi @@ base ELSE base

\* the ambient_color setter of the device library, given a '#' hex text: three
\* bytes, a three-digit text read with every digit doubled
AmbientColorBytes(s) ==
    LET d == Tail(s)
        full == IF Len(d) = 3 THEN <<d[1], d[1], d[2], d[2], d[3], d[3]>> ELSE d
    IN  [i \in 1..3 |-> 16 * HexValue(full[2 * i - 1]) + HexValue(full[2 * i])]

\* setattr(entity.device, attribute, attribute_value)
setattr(h, attribute, value) ==
    LET stored == IF attribute = "ambient_color" THEN AmbientColorBytes(value) ELSE value
    IN  [a \in DOMAIN h \cup {attribute} |-> IF a = attribute THEN stored ELSE h[a]]

-----------------------------------------------------------------------------
(* generate_entity_id (homeassistant.helpers.entity)                       *)

DOMAIN_PREFIX == <<"dreamscreen.">>

DEVICE_DEFAULT_NAME == <<"u","n","n","a","m","e","d","_","d","e","v","i","c","e">>

\* slugify: lower-case, blanks to underscores, everything outside [a-z0-9_] dropped
Slugify(name) ==
    LET low == LowerStr(name)
        und == [i \in DOMAIN low |-> IF low[i] = " " THEN "_" ELSE low[i]]
        Kept(c) == c \in Elems(LowerLetters) \cup Elems(Digits) \cup {"_"}
    IN  SelectSeq(und, Kept)

\* ensure_unique_string: the preferred text, or the first of preferred_2, preferred_3, ...
\* that current_strings does not hold
RECURSIVE EnsureUniqueFrom(_, _, _)
EnsureUniqueFrom(preferred, current, tries) ==
    LET test == IF tries = 1 THEN preferred ELSE preferred \o <<"_">> \o IntStr(tries)
    IN  IF test \in Elems(current) THEN EnsureUniqueFrom(preferred, current, tries + 1)
        ELSE test

ensure_unique_string(preferred, current) == EnsureUniqueFrom(preferred, current, 1)

generate_entity_id(name, current_ids) ==
    LET slug == IF Slugify(name) # <<>> THEN Slugify(name) ELSE DEVICE_DEFAULT_NAME
    IN  ensure_unique_string(DOMAIN_PREFIX \o slug, current_ids)

-----------------------------------------------------------------------------
(* class DreamScreenEntity                                                 *)

\* variant: the identifier generated without the identifiers already given out
DreamScreenEntityAlone(d, current_ids) ==
    [device    |-> d,
     entity_id |-> generate_entity_id(device[d].name, <<>>),
     _name     |-> device[d].name]

\* __init__(self, device, current_ids), for the handle with index d
DreamScreenEntity(d, current_ids) ==
    [device    |-> d,
     entity_id |-> generate_entity_id(device[d].name, current_ids),
     _name     |-> device[d].name]

\* the name property
name(e) == e._name

\* variant: on for the video mode alone
state_video_only(e) == IF device[e.device].mode = 1 THEN "on" ELSE "off"

\* the state property
state(e) == IF device[e.device].mode # 0 THEN "on" ELSE "off"

\* the assumed_state property
assumed_state(e) == "off"

\* isinstance(self.device, (DreamScreenHD, DreamScreen4K))
IsHdmiDevice(e) == kind[e.device] \in HdmiKinds

\* the attrs dict as first built by state_attributes, a function from its keys
base_attributes(dev) ==
    [group_name    |-> dev.group_name,
     group_number  |-> dev.group_number,
     device_mode   |-> dev.mode,
     brightness    |-> dev.brightness,
     ambient_color |-> <<"#">> \o UpperStr(BytesHex(dev.ambient_color)),
     ambient_scene |-> dev.ambient_scene]

\* the keys attrs.update adds for an HDMI-capable device
hdmi_attributes(dev, selected_hdmi) ==
    [selected_hdmi        |-> selected_hdmi,
     hdmi_input           |-> dev.hdmi_input,
     hdmi_input_1_name    |-> dev.hdmi_input_1_name,
     hdmi_input_2_name    |-> dev.hdmi_input_2_name,
     hdmi_input_3_name    |-> dev.hdmi_input_3_name,
     hdmi_active_channels |-> dev.hdmi_active_channels]

\* variant: the ambient colour without .upper()
state_attributes_lower(e) ==
    LET dev == device[e.device]
        attrs == [base_attributes(dev) EXCEPT
                     !.ambient_color = <<"#">> \o BytesHex(dev.ambient_color)]
        selected_hdmi ==
            IF dev.hdmi_input = 0 THEN dev.hdmi_input_1_name
            ELSE IF dev.hdmi_input = 1 THEN dev.hdmi_input_2_name
            ELSE IF dev.hdmi_input = 2 THEN dev.hdmi_input_3_name
            ELSE None
    IN  IF IsHdmiDevice(e) THEN hdmi_attributes(dev, selected_hdmi) @@ attrs ELSE attrs

\* variant: hdmi_input exposed whenever the handle has such an attribute
state_attributes_hasattr(e) ==
    LET dev == device[e.device]
        attrs == base_attributes(dev)
        selected_hdmi ==
            IF dev.hdmi_input = 0 THEN dev.hdmi_input_1_name
            ELSE IF dev.hdmi_input = 1 THEN dev.hdmi_input_2_name
            ELSE IF dev.hdmi_input = 2 THEN dev.hdmi_input_3_name
            ELSE None
    IN  IF IsHdmiDevice(e) THEN hdmi_attributes(dev, selected_hdmi) @@ attrs
        ELSE IF "hdmi_input" \in DOMAIN dev THEN [hdmi_input |-> dev.hdmi_input] @@ attrs
        ELSE attrs

\* variant: the input names taken one position early (input i named by name i)
state_attributes_shifted(e) ==
    LET dev == device[e.device]
        attrs == base_attributes(dev)
        selected_hdmi ==
            IF dev.hdmi_input = 1 THEN dev.hdmi_input_1_name
            ELSE IF dev.hdmi_input = 2 THEN dev.hdmi_input_2_name
            ELSE IF dev.hdmi_input = 3 THEN dev.hdmi_input_3_name
            ELSE None
    IN  IF IsHdmiDevice(e) THEN hdmi_attributes(dev, selected_hdmi) @@ attrs ELSE attrs

\* variant: the last branch an else, so any other index selects the third input
state_attributes_else(e) ==
    LET dev == device[e.device]
        attrs == base_attributes(dev)
        selected_hdmi ==
            IF dev.hdmi_input = 0 THEN dev.hdmi_input_1_name
            ELSE IF dev.hdmi_input = 1 THEN dev.hdmi_input_2_name
            ELSE dev.hdmi_input_3_name
    IN  IF IsHdmiDevice(e) THEN hdmi_attributes(dev, selected_hdmi) @@ attrs ELSE attrs

\* the state_attributes property
state_attributes(e) ==
    LET dev == device[e.device]
        attrs == base_attributes(dev)
        selected_hdmi ==
            IF dev.hdmi_input = 0 THEN dev.hdmi_input_1_name
            ELSE IF dev.hdmi_input = 1 THEN dev.hdmi_input_2_name
            ELSE IF dev.hdmi_input = 2 THEN dev.hdmi_input_3_name
            ELSE None
    IN  IF IsHdmiDevice(e) THEN hdmi_attributes(dev, selected_hdmi) @@ attrs ELSE attrs

-----------------------------------------------------------------------------
(* DreamScreenEntity.update: device.update_current_state()                 *)

\* the values a device may report for an attribute when its state is re-read
ReportValues(a) ==
    CASE a = "name"          -> {<<"T","V">>, <<"D","e","n">>}
      [] a = "mode"          -> 0..3
      [] a = "hdmi_input"    -> 0..3
      [] a = "brightness"    -> {0, 50, 100}
      [] a = "ambient_color" -> {<<0, 0, 0>>, <<255, 160, 9>>}
      [] a = "ambient_scene" -> {0, 8}
      [] OTHER               -> {}

\* the attributes update_current_state() assigns: those the handle's class declares
NativeAttributes(d) == DOMAIN NewDevice(<<>>, kind[d])

\* what one update() of handle d can do: raise and leave the handle as it is, find
\* the device as the handle has it, or find one attribute (among reportable) changed
UpdateOutcomes(d, reportable) ==
    {[status |-> "failed", handle |-> device[d]], [status |-> "ok", handle |-> device[d]]}
    \cup UNION {{[status |-> "ok", handle |-> [device[d] EXCEPT ![a] = v]]
                    : v \in ReportValues(a) \ {device[d][a]}}
                : a \in reportable \cap NativeAttributes(d)}

-----------------------------------------------------------------------------
(* async_setup                                                             *)

NoCall ==
    [pc |-> "idle", service |-> "", raw |-> [t |-> "none"], ids |-> {},
     data |-> Invalid, targets |-> <<>>, i |-> 0, updates |-> <<>>]

\* the state when the loop over pydreamscreen.get_devices() begins
InitWith(devices) ==
    /\ device = [d \in DOMAIN devices |-> NewDevice(devices[d].name, devices[d].kind)]
    /\ kind = [d \in DOMAIN devices |-> devices[d].kind]
    /\ entities = <<>>
    /\ entity_ids = <<>>
    /\ setup_pc = "loop"
    /\ call = NoCall
    /\ written = {}
    /\ clobbered = {}

\* one iteration of: for device in pydreamscreen.get_devices()
SetupStep ==
    /\ setup_pc = "loop"
    /\ Len(entities) < Len(device)
    /\ LET entity == DreamScreenEntity(Len(entities) + 1, entity_ids)
       IN  /\ entity_ids' = Append(entity_ids, entity.entity_id)
           /\ entities' = Append(entities, entity)
    /\ UNCHANGED <<device, kind, setup_pc, call, written, clobbered>>

\* component.async_add_entities(entities); return True
SetupFinish ==
    /\ setup_pc = "loop"
    /\ Len(entities) = Len(device)
    /\ setup_pc' = "done"
    /\ UNCHANGED <<device, kind, entities, entity_ids, call, written, clobbered>>

-----------------------------------------------------------------------------
(* The registered services and async_handle_dreamscreen_services           *)

\* an identifier no adapter was registered under
UnknownId == DOMAIN_PREFIX \o <<"g","o","n","e">>

TargetIds == Elems(entity_ids) \cup {UnknownId}

\* hass.services: a call of a registered service; the schema it was registered with
\* runs first and the handler is entered only with data the schema accepted
ServiceCall(requests) ==
    /\ setup_pc = "done"
    /\ call.pc \in {"idle", "done", "rejected"}
    /\ \E r \in requests, ids \in SUBSET TargetIds :
          LET data == Schema(r.service, r.raw)
          IN  call' = [pc      |-> IF data.ok THEN "extract" ELSE "rejected",
                       service |-> r.service, raw |-> r.raw, ids |-> ids,
                       data    |-> data, targets |-> <<>>, i |-> 0, updates |-> <<>>]
    /\ written' = {}
    /\ clobbered' = {}
    /\ UNCHANGED <<device, kind, entities, entity_ids, setup_pc>>

\* variant: every registered adapter, whatever the call names
async_extract_all(ids) == [k \in 1..Len(entities) |-> k]

\* component.async_extract_from_service(service): the registered adapters whose
\* identifier the call names, in registration order (as indices into entities)
async_extract_from_service(ids) ==
    LET Named(k) == entities[k].entity_id \in ids
    IN  SelectSeq([k \in 1..Len(entities) |-> k], Named)

\* from the handler's entry to the end of the yield from on line 98
Extract ==
    /\ call.pc = "extract"
    /\ call' = [call EXCEPT !.pc = "loop",
                            !.targets = async_extract_from_service(call.ids)]
    /\ UNCHANGED <<device, kind, entities, entity_ids, setup_pc, written, clobbered>>

\* entity.async_update_ha_state(True), called but not awaited: a coroutine object
NewUpdate == "created"

\* one iteration of: for entity in target_entities
LoopStep ==
    /\ call.pc = "loop"
    /\ call.i < Len(call.targets)
    /\ LET entity == entities[call.targets[call.i + 1]]
           attribute == SERVICE_TO_ATTRIBUTE(call.service)
           attribute_value == call.data.v
       IN  /\ device' = [device EXCEPT ![entity.device] =
                             setattr(@, attribute, attribute_value)]
           /\ written' = written \cup {entity.device}
           /\ clobbered' = clobbered \ {entity.device}
    /\ call' = [call EXCEPT !.i = @ + 1, !.updates = Append(@, NewUpdate)]
    /\ UNCHANGED <<kind, entities, entity_ids, setup_pc>>

\* if updates: yield from asyncio.wait(updates) -- every coroutine becomes a task
Await ==
    /\ call.pc = "loop"
    /\ call.i = Len(call.targets)
    /\ call' = IF call.updates # <<>>
               THEN [call EXCEPT !.pc = "wait",
                                 !.updates = [k \in DOMAIN @ |-> "pending"]]
               ELSE [call EXCEPT !.pc = "done"]
    /\ UNCHANGED <<device, kind, entities, entity_ids, setup_pc, written, clobbered>>

\* the effect of one update() of handle d on the handles
Updated(d, outcome) ==
    /\ device' = [device EXCEPT ![d] = outcome.handle]
    /\ clobbered' =
          IF /\ d \in written
             /\ outcome.handle[SERVICE_TO_ATTRIBUTE(call.service)]
                    # device[d][SERVICE_TO_ATTRIBUTE(call.service)]
          THEN clobbered \cup {d}
          ELSE clobbered

\* one task of asyncio.wait runs: the adapter's update(), then the state is published
RefreshStep(reportable) ==
    /\ \E k \in DOMAIN call.updates :
          /\ call.updates[k] = "pending"
          /\ LET d == entities[call.targets[k]].device
             IN  \E outcome \in UpdateOutcomes(d, reportable) :
                    /\ Updated(d, outcome)
                    /\ call' = [call EXCEPT !.updates[k] = outcome.status]
    /\ UNCHANGED <<kind, entities, entity_ids, setup_pc, written>>

\* variant: return_when=FIRST_COMPLETED
AnySettled(updates) == \E k \in DOMAIN updates : updates[k] \in {"ok", "failed"}

\* asyncio.wait's default return_when=ALL_COMPLETED
AllSettled(updates) == \A k \in DOMAIN updates : updates[k] \in {"ok", "failed"}

\* asyncio.wait returns and the handler ends
Complete ==
    /\ call.pc = "wait"
    /\ AllSettled(call.updates)
    /\ call' = [call EXCEPT !.pc = "done"]
    /\ UNCHANGED <<device, kind, entities, entity_ids, setup_pc, written, clobbered>>

\* the platform's periodic poll of an adapter: update(), outside any service call
Poll(reportable) ==
    /\ setup_pc = "done"
    /\ \E k \in DOMAIN entities :
          \E outcome \in UpdateOutcomes(entities[k].device, reportable) :
             Updated(entities[k].device, outcome)
    /\ UNCHANGED <<kind, entities, entity_ids, setup_pc, call, written>>

-----------------------------------------------------------------------------
(* Inputs: the service calls and the discovered devices of each            *)
(* specification                                                           *)

IntRaw(n) == [t |-> "int", v |-> n]

FloatRaw(tenths) == [t |-> "float", tenths |-> tenths]

StrRaw(s) == [t |-> "str", s |-> s]

NoneRaw == [t |-> "none"]

RequestsOf(service, raws) == {[service |-> service, raw |-> r] : r \in raws}

\* set_mode with every mode, both neighbours of the range, floats, texts and None
ModeRequests ==
    RequestsOf(SERVICE_MODE,
               {IntRaw(n) : n \in -1..4}
               \cup {FloatRaw(-5), FloatRaw(35), FloatRaw(40), StrRaw(<<"2">>), StrRaw(<<"o","n">>), NoneRaw})

HdmiRequests ==
    RequestsOf(SERVICE_HDMI_SOURCE,
               {IntRaw(n) : n \in -1..3} \cup {FloatRaw(29), StrRaw(<<"-","1">>), NoneRaw})

ColorTexts ==
    {<<"#","a","b","c">>, <<"#","F","0","9">>, <<"#","0","0","f","f","1","0">>,
     <<"#","1","2","A","b","C","d">>,
     <<"a","b","c">>, <<"#">>, <<"#","a","b">>, <<"#","a","b","c","d">>,
     <<"#","1","2","3","4","5">>, <<"#","1","2","3","4","5","6","7">>,
     <<"#","a","b","g">>, <<"a","b","c","d","e","f","0">>, <<"#","#","a","b","c","d","e">>}

ColorRequests ==
    RequestsOf(SERVICE_AMBIENT_COLOR, {StrRaw(s) : s \in ColorTexts} \cup {IntRaw(123), NoneRaw})

\* every service, at and around the ends of its range
BoundaryRequests ==
    RequestsOf(SERVICE_MODE, {IntRaw(-1), IntRaw(3), IntRaw(4), FloatRaw(-5), NoneRaw})
    \cup RequestsOf(SERVICE_HDMI_SOURCE, {IntRaw(-1), IntRaw(3), StrRaw(<<"x">>)})
    \cup RequestsOf(SERVICE_BRIGHTNESS,
                    {IntRaw(-1), IntRaw(100), IntRaw(101), FloatRaw(1005), FloatRaw(1010)})
    \cup RequestsOf(SERVICE_AMBIENT_SCENE, {IntRaw(-1), IntRaw(9), StrRaw(<<"9">>)})
    \cup RequestsOf(SERVICE_AMBIENT_COLOR,
                    {StrRaw(<<"a","b","c">>), StrRaw(<<"#","a","b","c","d">>),
                     StrRaw(<<"#","a","b","g">>), IntRaw(123)})

Discovered(nm, k) == [name |-> nm, kind |-> k]

TV == <<"T","V">>

\* an HDMI-capable device and one that is not, advertising the same name
MixedFleet == <<Discovered(TV, "DreamScreen4K"), Discovered(TV, "SideKick")>>

\* two devices of any classes
AnyFleets == {<<Discovered(TV, k1), Discovered(TV, k2)>> : k1 \in Kinds, k2 \in Kinds}

DeviceNames == {TV, <<"t","v">>, <<"T","V"," ","2">>, <<"t","v","_","2">>, <<"!">>}

RECURSIVE SeqsUpTo(_, _)
SeqsUpTo(S, n) ==
    IF n = 0 THEN {<<>>}
    ELSE LET shorter == SeqsUpTo(S, n - 1)
         IN  shorter \cup {Append(q, x) : q \in shorter, x \in S}

\* up to MaxDevices devices with any of the names, all of one class
NamedFleets ==
    {[d \in DOMAIN names |-> Discovered(names[d], "SideKick")]
        : names \in SeqsUpTo(DeviceNames, MaxDevices)}

-----------------------------------------------------------------------------
(* Specifications                                                          *)

Setup == SetupStep \/ SetupFinish

Handler(reportable) ==
    Extract \/ LoopStep \/ Await \/ RefreshStep(reportable) \/ Complete

\* all five services on a mixed pair of devices
Init == InitWith(MixedFleet)

Next ==
    \/ Setup
    \/ ServiceCall(BoundaryRequests)
    \/ Handler({"brightness"})
    \/ Poll({"brightness"})

Spec == Init /\ [][Next]_vars

\* set_mode alone; the devices report changes of mode and of name
InitMode == InitWith(MixedFleet)

NextMode ==
    \/ Setup
    \/ ServiceCall(ModeRequests)
    \/ Handler({"mode", "name"})
    \/ Poll({"mode", "name"})

SpecMode == InitMode /\ [][NextMode]_vars

\* set_ambient_color alone
InitColor == InitWith(MixedFleet)

NextColor ==
    \/ Setup
    \/ ServiceCall(ColorRequests)
    \/ Handler({"ambient_color"})
    \/ Poll({"ambient_color"})

SpecColor == InitColor /\ [][NextColor]_vars

\* set_hdmi_source alone, on every pair of device classes
InitHdmi == \E fleet \in AnyFleets : InitWith(fleet)

NextHdmi ==
    \/ Setup
    \/ ServiceCall(HdmiRequests)
    \/ Handler({"hdmi_input"})
    \/ Poll({"hdmi_input"})

SpecHdmi == InitHdmi /\ [][NextHdmi]_vars

\* async_setup's loop alone, over every list of discovered names
InitSetup == \E fleet \in NamedFleets : InitWith(fleet)

NextSetup == Setup

SpecSetup == InitSetup /\ [][NextSetup]_vars

-----------------------------------------------------------------------------
(* Properties                                                              *)

\* the handles of the adapters registered under one of the identifiers
ResolvedDevices(ids) ==
    {entities[k].device : k \in {j \in DOMAIN entities : entities[j].entity_id \in ids}}

\* the adapters the current call has already written to
WrittenTargets == {entities[call.targets[k]] : k \in 1..call.i}

\* the documented limits of the four integer parameters
DocumentedRange(service) ==
    CASE service = SERVICE_MODE          -> 0..3
      [] service = SERVICE_HDMI_SOURCE   -> 0..2
      [] service = SERVICE_BRIGHTNESS    -> 0..100
      [] service = SERVICE_AMBIENT_SCENE -> 0..8

\* a '#' followed by three or by six hexadecimal digits
IsHashHex(s) ==
    /\ Len(s) \in {4, 7}
    /\ Head(s) = "#"
    /\ \A i \in 2..Len(s) :
          s[i] \in {"0","1","2","3","4","5","6","7","8","9",
                    "a","b","c","d","e","f","A","B","C","D","E","F"}

\* a parameter the documented validation refuses: None, an integer outside the
\* service's range, or a colour that is not a text of '#' and three or six
\* hexadecimal digits
FailsValidation(service, raw) ==
    \/ raw.t = "none"
    \/ /\ service = SERVICE_AMBIENT_COLOR
       /\ raw.t = "int" \/ (raw.t = "str" /\ ~IsHashHex(raw.s))
    \/ /\ service # SERVICE_AMBIENT_COLOR
       /\ raw.t = "int"
       /\ raw.v \notin DocumentedRange(service)

C2_ModeDecidesState ==
    \A m \in 0..3 :
       call.pc # "idle" /\ call.service = SERVICE_MODE /\ call.raw = IntRaw(m)
       => /\ call.pc # "rejected"
          /\ \A e \in WrittenTargets :
                e.device \notin clobbered => state(e) = (IF m # 0 THEN "on" ELSE "off")

C2_Witness ==
    /\ call.pc = "done"
    /\ call.service = SERVICE_MODE
    /\ call.raw = IntRaw(2)
    /\ written = DOMAIN device
    /\ clobbered = {}
    /\ call.updates = <<"ok", "ok">>
    /\ \A e \in WrittenTargets : state(e) = "on"

\* the colour text as upper-case #RRGGBB, a three-digit text with every digit doubled
RECURSIVE Doubled(_)
Doubled(s) == IF s = <<>> THEN <<>> ELSE <<Head(s), Head(s)>> \o Doubled(Tail(s))

ToUpper(c) ==
    CASE c = "a" -> "A" [] c = "b" -> "B" [] c = "c" -> "C"
      [] c = "d" -> "D" [] c = "e" -> "E" [] c = "f" -> "F" [] OTHER -> c

NormalizedColor(s) ==
    LET digits == IF Len(s) = 4 THEN Doubled(Tail(s)) ELSE Tail(s)
    IN  <<"#">> \o [i \in DOMAIN digits |-> ToUpper(digits[i])]

HdmiKeys ==
    {"hdmi_input", "selected_hdmi", "hdmi_input_1_name", "hdmi_input_2_name",
     "hdmi_input_3_name", "hdmi_active_channels"}

\* C4: the attributes of an adapter whose device is not HDMI-capable hold none of
\* the HDMI keys, in every reachable state.
C4_NoHdmiKeys ==
    \A k \in DOMAIN entities :
       kind[entities[k].device] \notin {"DreamScreenHD", "DreamScreen4K"}
       => DOMAIN state_attributes(entities[k]) \cap HdmiKeys = {}

C4_Witness ==
    \E k \in DOMAIN entities :
       /\ kind[entities[k].device] = "SideKick"
       /\ call.pc = "done"
       /\ call.service = SERVICE_HDMI_SOURCE
       /\ entities[k].device \in written
       /\ "hdmi_input" \in DOMAIN device[entities[k].device]

\* the device's name for HDMI input n
InputName(dev, n) ==
    CASE n = 1 -> dev.hdmi_input_1_name
      [] n = 2 -> dev.hdmi_input_2_name
      [] n = 3 -> dev.hdmi_input_3_name

\* C5: for an HDMI-capable device whose hdmi_input is i in 0..2, selected_hdmi is
\* the device's name for input i+1 and the hdmi_input attribute is i.
C5_SelectedHdmi ==
    \A k \in DOMAIN entities, i \in 0..2 :
       LET dev == device[entities[k].device]
       IN  kind[entities[k].device] \in {"DreamScreenHD", "DreamScreen4K"}
              /\ dev.hdmi_input = i
           => /\ state_attributes(entities[k]).selected_hdmi = InputName(dev, i + 1)
              /\ state_attributes(entities[k]).hdmi_input = i

C5_Witness ==
    \E k \in DOMAIN entities :
       /\ kind[entities[k].device] = "DreamScreenHD"
       /\ call.pc = "done"
       /\ call.raw = IntRaw(1)
       /\ entities[k].device \in written
       /\ state_attributes(entities[k]).selected_hdmi = "HDMI 2"

\* C6: the identifiers generated for the discovered devices are pairwise distinct,
\* and entity_ids holds exactly the identifiers of the adapters built so far.
C6_DistinctIds ==
    /\ Len(entity_ids) = Len(entities)
    /\ \A i \in DOMAIN entities : entity_ids[i] = entities[i].entity_id
    /\ \A i, j \in DOMAIN entities : i # j => entities[i].entity_id # entities[j].entity_id

C6_Witness ==
    /\ setup_pc = "done"
    /\ Len(entities) = 3
    /\ device[1].name = device[2].name
    /\ device[3].name = <<"t","v","_","2">>

\* C7: a call writes only to handles its identifiers resolve to; its targets are
\* exactly the registered adapters it names; a loop step changes no other handle;
\* and a call that resolves to nothing ends with no write and no refresh.
C7_OnlyResolvedTargets ==
    /\ [](/\ written \subseteq ResolvedDevices(call.ids)
          /\ (call.pc \in {"loop", "wait", "done"}
                 => {entities[k].device : k \in Elems(call.targets)}
                       = ResolvedDevices(call.ids))
          /\ (call.pc = "done" /\ ResolvedDevices(call.ids) = {}
                 => written = {} /\ call.updates = <<>>))
    /\ [][call'.i = call.i + 1
             => \A d \in DOMAIN device :
                   d \notin ResolvedDevices(call.ids) => device'[d] = device[d]]_vars

C7_Witness ==
    /\ call.pc = "done"
    /\ call.ids = {entity_ids[1], UnknownId}
    /\ written = {1}
    /\ device[1].mode = 3
    /\ device[2].mode = 0

\* C8: the handler is done only when every refresh it created has settled, one per
\* target; and a refresh that has been started belongs to a target already written.
C8_CompletesAfterRefreshes ==
    /\ call.pc = "done"
          => /\ Len(call.updates) = Len(call.targets)
             /\ \A k \in DOMAIN call.updates : call.updates[k] \in {"ok", "failed"}
    /\ \A k \in DOMAIN call.updates :
          call.updates[k] # "created" => entities[call.targets[k]].device \in written

C8_Witness ==
    /\ call.pc = "done"
    /\ call.updates = <<"failed", "ok">>

\* C9: at every read, the adapter's name is the device handle's current name.
C9_NameReadThrough ==
    \A k \in DOMAIN entities : name(entities[k]) = device[entities[k].device].name

\* C10 as stated: for an HDMI-capable device whose hdmi_input is outside 0..2 the
\* attributes have no selected_hdmi key and have the other five HDMI keys.
C10_SelectedAbsent ==
    \A k \in DOMAIN entities :
       kind[entities[k].device] \in {"DreamScreenHD", "DreamScreen4K"}
          /\ device[entities[k].device].hdmi_input \notin 0..2
       => /\ "selected_hdmi" \notin DOMAIN state_attributes(entities[k])
          /\ HdmiKeys \ {"selected_hdmi"} \subseteq DOMAIN state_attributes(entities[k])

\* C10 amended: for an HDMI-capable device whose hdmi_input is outside 0..2 the
\* attributes hold selected_hdmi with the value None, hdmi_input with the
\* device's value, and the three input names and hdmi_active_channels.
C10_SelectedNone ==
    \A k \in DOMAIN entities :
       kind[entities[k].device] \in {"DreamScreenHD", "DreamScreen4K"}
          /\ device[entities[k].device].hdmi_input \notin 0..2
       => /\ HdmiKeys \subseteq DOMAIN state_attributes(entities[k])
          /\ state_attributes(entities[k]).selected_hdmi = "None"
          /\ state_attributes(entities[k]).hdmi_input
                = device[entities[k].device].hdmi_input

C10_Witness ==
    \E k \in DOMAIN entities :
       /\ kind[entities[k].device] = "DreamScreen4K"
       /\ device[entities[k].device].hdmi_input = 3
       /\ "selected_hdmi" \in DOMAIN state_attributes(entities[k])

====
